---- MODULE Spec2Model ----
(***************************************************************************)
(* geotrace/lbs: the lbs-import tool (src/doc.go, package main) that fills  *)
(* the MongoDB collection "lbs" from a CSV file, and the lookup library     *)
(* (src/unnamed/part_000, package lbs) that answers GetCells / Get /        *)
(* Records against that collection.                                         *)
(*                                                                         *)
(* Numbers.  A float64 is modelled in fixed point: a coordinate is an       *)
(* integer number of millidegrees, a range an integer number of             *)
(* millimetres.  A CSV field is its lexical class (integer literal,         *)
(* decimal literal, other text) and its value, so that strconv's parsers    *)
(* can accept and reject it as they do.                                     *)
(***************************************************************************)
EXTENDS Integers, Sequences, FiniteSets, TLC

VARIABLES
    store,          \* the collection: a set of documents (key fields + data fields)
    index,          \* whether the unique index on the key fields exists
    pc,             \* position of the import run in main
    filename,       \* flag.Arg(0), as a sequence of name parts
    filterRadio,    \* map[string]bool, as the set of its keys
    filterCountry,  \* map[uint16]bool, as the set of its keys
    minSamples,     \* *minSamples
    csv,            \* the records the csv.Reader will deliver, header first
    fieldsPerRecord,\* r.FieldsPerRecord
    lines,          \* lines
    counter,        \* counter
    bulk,           \* the operations staged in bulk, in staging order
    exit,           \* how the run ended
    pre,            \* history: the collection when the run started
    purged,         \* history: whether this run's RemoveAll has been applied
    applied,        \* history: the staged operations this run's bulk.Run applied
    prevRun,        \* history: the collection as the previous run left it, kept when
                    \* this run repeats that run's file name, filters and file
    caller          \* for each caller of the package, the call it is in: the method,
                    \* the request, its position, what it has got, and the numbers
                    \* of session copies, queries and session closes it has made

importVars == <<pc, filename, filterRadio, filterCountry, minSamples, csv,
                fieldsPerRecord, lines, counter, bulk, exit, pre, purged, applied,
                prevRun>>

----------------------------------------------------------------------------
(* Bounds of the model *)

\* data rows in one CSV file
MaxRows == 2

\* cell towers in one request
MaxTowers == 2

----------------------------------------------------------------------------
(* CSV fields and strconv *)

Txt(s) == [kind |-> "text", s |-> s, v |-> 0]
Num(n) == [kind |-> "int", s |-> "", v |-> n]
Dec(m) == [kind |-> "float", s |-> "", v |-> m]

MaxUint16 == 65535
MaxInt32 == 2147483647

\* strconv.ParseUint(s, 10, 16) / (s, 10, 32): an integer literal in range
ParseUintOk(f, max) == f.kind = "int" /\ f.v >= 0 /\ f.v <= max

\* strconv.ParseInt(s, 10, 32)
ParseIntOk(f) == f.kind = "int" /\ f.v >= -MaxInt32 - 1 /\ f.v <= MaxInt32

\* strconv.ParseFloat(s, 64): integer and decimal literals
ParseFloatOk(f) == f.kind \in {"int", "float"}

\* the float64 ParseFloat returns, in thousandths
ParseFloat(f) == IF f.kind = "int" THEN f.v * 1000 ELSE f.v

\* strings.ToLower
ToLower(s) ==
    CASE s = "GSM" -> "gsm"
      [] s = "LTE" -> "lte"
      [] s = " LTE" -> " lte"
      [] OTHER -> s

\* strings.TrimSpace
TrimSpace(s) ==
    CASE s = " lte" -> "lte"
      [] s = " LTE" -> "LTE"
      [] OTHER -> s

----------------------------------------------------------------------------
(* The CSV files the model reads.  Columns by position (Go index k is      *)
(* element k+1 here): 0 radio, 1 mcc, 2 mnc, 3 area, 4 cell, 6 lon, 7 lat, *)
(* 8 range, 9 samples; the other columns are not read.                     *)

Col(record, k) == record[k + 1]

MkRow(radio, mcc, mnc, area, cell, lon, lat, range, samples) ==
    <<Txt(radio), mcc, mnc, area, cell, Num(0), lon, lat, range, samples,
      Num(1), Num(1), Num(0), Num(0)>>

Header == [i \in 1..14 |-> Txt("col")]

RowA1 == MkRow("gsm", Num(250), Num(2), Num(7743), Num(22517),
               Dec(37600), Dec(55700), Num(50), Num(10))
\* the same tower as RowA1, measured differently and with fewer samples; its
\* range is below zero, which ParseFloat takes like any other number
RowA2 == MkRow("gsm", Num(250), Num(2), Num(7743), Num(22517),
               Dec(37700), Dec(55800), Num(-5), Num(3))
RowB == MkRow("GSM", Num(250), Num(2), Num(7743), Num(22518),
              Dec(37650), Dec(55750), Num(75), Num(10))
RowC == MkRow("lte", Num(255), Num(1), Num(7743), Num(22517),
              Dec(30500), Dec(50400), Num(1000), Num(20))
\* a cell id that is no number
RowBadCell == MkRow("gsm", Num(250), Num(2), Num(7743), Txt("x"),
                    Dec(37600), Dec(55700), Num(50), Num(10))
\* a record with fewer fields than the header
RowShort == <<Txt("gsm"), Num(250), Num(2)>>

Rows == {RowA1, RowA2, RowB, RowC, RowBadCell, RowShort}

RECURSIVE SeqsUpTo(_, _)
SeqsUpTo(S, n) ==
    IF n = 0 THEN {<<>>}
    ELSE LET shorter == SeqsUpTo(S, n - 1)
         IN  shorter \cup {Append(q, x) : q \in {t \in shorter : Len(t) = n - 1}, x \in S}

\* a file is its header and up to MaxRows data rows; the empty file has not even a header
Files == {<<>>} \cup {<<Header>> \o rows : rows \in SeqsUpTo(Rows, MaxRows)}

\* flag.Arg(0), cut into parts
FileNames == {<<"cell_towers", ".csv">>, <<"cell_towers", "diff", ".csv">>}

\* The flags of a command line: -radio and -country split at the commas
\* (strings.Split of "" is one empty string), and -minsample.
\* The default flags: radio gsm, country 250, no minimum.
DefaultFlags == [radio |-> <<"gsm">>, country |-> <<Num(250)>>, minsample |-> 0]
\* Two radio types, one of them with a blank and in capitals, every country,
\* five samples at least.
WideFlags == [radio |-> <<"gsm", " LTE">>, country |-> <<Txt("")>>, minsample |-> 5]
\* -radio "" -country ""
EmptyFlags == [radio |-> <<"">>, country |-> <<Txt("")>>, minsample |-> 0]

CommandLines == {DefaultFlags, WideFlags, EmptyFlags}

\* a mutant of ContainsDiff: the marker is looked for in capitals, and never found
ContainsDiffUpper(name) == \E i \in 1..Len(name) : name[i] = "DIFF"

\* a mutant of ContainsDiff: every file name counts as incremental
ContainsDiffAlways(name) == \E i \in 1..Len(name) : name[i] \in {"diff", ".csv"}

\* strings.Contains(filename, "diff")
ContainsDiff(name) == \E i \in 1..Len(name) : name[i] = "diff"

Range(q) == {q[i] : i \in 1..Len(q)}

\* the loop that fills filterRadio
MakeFilterRadio(flag) == {ToLower(TrimSpace(r)) : r \in Range(flag)}

\* the loop that fills filterCountry
MakeFilterCountry(flag) == {f.v : f \in {g \in Range(flag) : ParseUintOk(g, MaxUint16)}}

----------------------------------------------------------------------------
(* One data row: filters, parsing, key and data *)

RadioOf(record) == ToLower(Col(record, 0).s)

\* a mutant of Accepted: the sample count is parsed and not compared
AcceptedAnySamples(record, fRadio, fCountry, minS) ==
    /\ ~(fRadio # {} /\ RadioOf(record) \notin fRadio)
    /\ ParseIntOk(Col(record, 9))
    /\ ParseUintOk(Col(record, 1), MaxUint16)
    /\ ~(fCountry # {} /\ Col(record, 1).v \notin fCountry)
    /\ ParseUintOk(Col(record, 2), MaxUint16)
    /\ ParseUintOk(Col(record, 3), MaxUint16)
    /\ ParseUintOk(Col(record, 4), MaxInt32)
    /\ ParseFloatOk(Col(record, 6))
    /\ ParseFloatOk(Col(record, 7))
    /\ ParseFloatOk(Col(record, 8))

\* the row passes every `continue` of the loop body and is staged
Accepted(record, fRadio, fCountry, minS) ==
    /\ ~(fRadio # {} /\ RadioOf(record) \notin fRadio)
    /\ ParseIntOk(Col(record, 9))
    /\ ~(Col(record, 9).v < minS)
    /\ ParseUintOk(Col(record, 1), MaxUint16)
    /\ ~(fCountry # {} /\ Col(record, 1).v \notin fCountry)
    /\ ParseUintOk(Col(record, 2), MaxUint16)
    /\ ParseUintOk(Col(record, 3), MaxUint16)
    /\ ParseUintOk(Col(record, 4), MaxInt32)   \* 32 bits: every integer of the model fits
    /\ ParseFloatOk(Col(record, 6))
    /\ ParseFloatOk(Col(record, 7))
    /\ ParseFloatOk(Col(record, 8))

\* a mutant of KeyOf: the network code and the area code change places
KeyOfSwapped(record) ==
    [radio |-> RadioOf(record), mcc |-> Col(record, 1).v, mnc |-> Col(record, 3).v,
     lac |-> Col(record, 2).v, cell |-> Col(record, 4).v]

\* lbs.Key
KeyOf(record) ==
    [radio |-> RadioOf(record), mcc |-> Col(record, 1).v, mnc |-> Col(record, 2).v,
     lac |-> Col(record, 3).v, cell |-> Col(record, 4).v]

\* lbs.Data: Location (lon, lat) and Accuracy
DataOf(record) ==
    [lon |-> ParseFloat(Col(record, 6)), lat |-> ParseFloat(Col(record, 7)),
     range |-> ParseFloat(Col(record, 8))]

----------------------------------------------------------------------------
(* The collection *)

DocKey(d) == [radio |-> d.radio, mcc |-> d.mcc, mnc |-> d.mnc, lac |-> d.lac, cell |-> d.cell]
DocData(d) == [lon |-> d.lon, lat |-> d.lat, range |-> d.range]
MkDoc(k, v) ==
    [radio |-> k.radio, mcc |-> k.mcc, mnc |-> k.mnc, lac |-> k.lac, cell |-> k.cell,
     lon |-> v.lon, lat |-> v.lat, range |-> v.range]

Keys(s) == {DocKey(d) : d \in s}

\* Unique + DropDups: of the documents that share a key, one is kept
DropDups(s) == {CHOOSE d \in s : DocKey(d) = k : k \in Keys(s)}

\* bulk.Upsert(key, {"$set": data}), applied: the document with that key gets the
\* data, and is inserted when there is none
Upsert(s, op) ==
    IF op.key \in Keys(s)
    THEN LET hit == CHOOSE d \in s : DocKey(d) = op.key
         IN  (s \ {hit}) \cup {MkDoc(op.key, op.data)}
    ELSE s \cup {MkDoc(op.key, op.data)}

RECURSIVE ApplyAll(_, _)
ApplyAll(s, ops) ==
    IF ops = <<>> THEN s ELSE ApplyAll(Upsert(s, Head(ops)), Tail(ops))

\* the orders in which n staged operations can be applied
Orders(n) == {f \in [1..n -> 1..n] : \A i, j \in 1..n : f[i] = f[j] => i = j}

----------------------------------------------------------------------------
(* package lbs: requests *)

DefaultRadioType == "gsm"

\* locator.CellTower, the fields the package reads
Tower(mcc, mnc, lac, cell) ==
    [MobileCountryCode |-> mcc, MobileNetworkCode |-> mnc,
     LocationAreaCode |-> lac, CellId |-> cell]

\* locator.Request, the fields the package reads
Request(radio, mcc, mnc, towers, wifi) ==
    [RadioType |-> radio, HomeMobileCountryCode |-> mcc, HomeMobileNetworkCode |-> mnc,
     CellTowers |-> towers, WifiAccessPoints |-> wifi]

\* radio, mcc and mnc of the search.  The code reads req.CellTowers[0] when a
\* request-level code is 0: with no cell tower that read is out of range.
Panics(req) ==
    /\ req.HomeMobileCountryCode = 0 \/ req.HomeMobileNetworkCode = 0
    /\ Len(req.CellTowers) = 0

EffRadio(req) == IF req.RadioType = "" THEN DefaultRadioType ELSE req.RadioType

EffMcc(req) ==
    IF req.HomeMobileCountryCode = 0
    THEN req.CellTowers[1].MobileCountryCode
    ELSE req.HomeMobileCountryCode

EffMnc(req) ==
    IF req.HomeMobileNetworkCode = 0
    THEN req.CellTowers[1].MobileNetworkCode
    ELSE req.HomeMobileNetworkCode

\* a mutant of Matches: the radio type is not compared
MatchesAnyRadio(s, search) ==
    {d \in s : /\ d.mcc = search.mcc
               /\ d.mnc = search.mnc
               /\ \E i \in 1..Len(search.or) :
                    d.lac = search.or[i].lac /\ d.cell = search.or[i].cell}

\* a mutant of Search: only the first tower gets into $or
SearchFirstOnly(req) ==
    [radio |-> EffRadio(req), mcc |-> EffMcc(req), mnc |-> EffMnc(req),
     or |-> [i \in 1..Len(req.CellTowers) |->
               [lac |-> req.CellTowers[1].LocationAreaCode,
                cell |-> req.CellTowers[1].CellId]]]

\* the bson.M handed to coll.Find
Search(req) ==
    [radio |-> EffRadio(req), mcc |-> EffMcc(req), mnc |-> EffMnc(req),
     or |-> [i \in 1..Len(req.CellTowers) |->
               [lac |-> req.CellTowers[i].LocationAreaCode,
                cell |-> req.CellTowers[i].CellId]]]

\* the documents a search selects
Matches(s, search) ==
    {d \in s : /\ d.radio = search.radio
               /\ d.mcc = search.mcc
               /\ d.mnc = search.mnc
               /\ \E i \in 1..Len(search.or) :
                    d.lac = search.or[i].lac /\ d.cell = search.or[i].cell}

\* Find(search).Select(location, range).All(&cells): the selected documents'
\* data, in an order of the server's choosing
FindResults(s, search) ==
    LET hits == Matches(s, search)
        n == Cardinality(hits)
    IN  {cells \in [1..n -> {DocData(d) : d \in hits}] :
           \E f \in [1..n -> hits] :
              /\ \A i, j \in 1..n : f[i] = f[j] => i = j
              /\ \A i \in 1..n : cells[i] = DocData(f[i])}

----------------------------------------------------------------------------
(* package lbs: the arithmetic of Get, in fixed point.  Degrees are in      *)
(* thousandths, half-angle radians, sines and arcsines in millionths,       *)
(* latitudes in radians and cosines in thousandths, metres in thousandths.  *)

NaN == [nan |-> TRUE, v |-> 0]
Float(x) == [nan |-> FALSE, v |-> x]

\* float64 division by a count: 0/0 is NaN
FDiv(x, n) == IF n = 0 THEN NaN ELSE Float(x \div n)

EARTH_RADIUS == 6378137

RECURSIVE SumOf(_, _)
SumOf(cells, field) ==
    IF cells = <<>> THEN 0 ELSE Head(cells)[field] + SumOf(Tail(cells), field)

\* math.Pi / 180.0 * d / 2.0, from thousandths of a degree to millionths of a radian
HalfRadians(d) == (d * 8727) \div 1000

\* math.Pi / 180.0 * d, from thousandths of a degree to thousandths of a radian
Radians(d) == (d * 17453) \div 1000000

\* math.Sin, in millionths, by its series
Sin(x) == x - (((x * x) \div 1000000) * x) \div 6000000

\* math.Cos, in thousandths, by its series
Cos(y) ==
    LET y2 == (y * y) \div 1000
        y4 == (y2 * y2) \div 1000
        y6 == (y4 * y2) \div 1000
    IN  1000 - y2 \div 2 + y4 \div 24 - y6 \div 720

RECURSIVE SqrtBetween(_, _, _)
SqrtBetween(n, lo, hi) ==
    IF lo = hi THEN lo
    ELSE LET mid == (lo + hi + 1) \div 2
         IN  IF mid * mid <= n THEN SqrtBetween(n, mid, hi)
             ELSE SqrtBetween(n, lo, mid - 1)

\* math.Sqrt, from millionths of a millionth to millionths
Sqrt(n) == SqrtBetween(n, 0, 46340)

\* math.Asin, in millionths, by its series
Asin(x) == x + (((x * x) \div 1000000) * x) \div 6000000

Min(a, b) == IF a < b THEN a ELSE b

\* 2*EARTH_RADIUS*c of the loop body of Get: the distance on the sphere from
\* the point (lon2, lat2) of a cell to the mean point (lon, lat)
Haversine(lon, lat, lon2, lat2) ==
    LET dLat == HalfRadians(lat2 - lat)
        dLon == HalfRadians(lon2 - lon)
        lat1 == Radians(lat)
        lat2r == Radians(lat2)
        coscos == (Cos(lat1) * Cos(lat2r)) \div 1000
        a == Sin(dLat) * Sin(dLat) + ((Sin(dLon) * Sin(dLon)) \div 1000) * coscos
        c == Asin(Min(1000000, Sqrt(a)))
    IN  ((2 * EARTH_RADIUS) \div 1000) * c + (((2 * EARTH_RADIUS) % 1000) * c) \div 1000

\* a mutant of Farthest: the cell's own range is left out of the distance
RECURSIVE FarthestNoRange(_, _, _, _)
FarthestNoRange(cells, lon, lat, accuracy) ==
    IF cells = <<>> THEN accuracy
    ELSE LET cell == Head(cells)
             dist == Haversine(lon, lat, cell.lon, cell.lat)
         IN  FarthestNoRange(Tail(cells), lon, lat, IF dist > accuracy THEN dist ELSE accuracy)

\* a mutant of Farthest: the loop stops after the first cell
FarthestFirst(cells, lon, lat, accuracy) ==
    IF cells = <<>> THEN accuracy
    ELSE LET cell == Head(cells)
             dist == Haversine(lon, lat, cell.lon, cell.lat) + cell.range
         IN  IF dist > accuracy THEN dist ELSE accuracy

\* the second loop of Get: the greatest of the cells' dist, above the accuracy so far
RECURSIVE Farthest(_, _, _, _)
Farthest(cells, lon, lat, accuracy) ==
    IF cells = <<>> THEN accuracy
    ELSE LET cell == Head(cells)
             dist == Haversine(lon, lat, cell.lon, cell.lat) + cell.range
         IN  Farthest(Tail(cells), lon, lat, IF dist > accuracy THEN dist ELSE accuracy)

\* Get after GetCells has returned cells: the locator.Response.  With no cell the
\* mean is 0/0 and the second loop does not run.
Respond(cells) ==
    LET count == Len(cells)
        lon == FDiv(SumOf(cells, "lon"), count)
        lat == FDiv(SumOf(cells, "lat"), count)
    IN  [Lat |-> lat, Lng |-> lon, Accuracy |-> Farthest(cells, lon.v, lat.v, 0)]

----------------------------------------------------------------------------
(* lbs-import: func main, one action per step that reaches outside the     *)
(* process (the server, the file), with the local code that follows it     *)

NoPrev == [same |-> FALSE, docs |-> {}]

InitImport ==
    /\ pc = "idle"
    /\ filename = <<>>
    /\ filterRadio = {}
    /\ filterCountry = {}
    /\ minSamples = 0
    /\ csv = <<>>
    /\ fieldsPerRecord = 0
    /\ lines = 0
    /\ counter = 0
    /\ bulk = <<>>
    /\ exit = "none"
    /\ pre = {}
    /\ purged = FALSE
    /\ applied = {}
    /\ prevRun = NoPrev

\* the run ended with its writes applied: bulk.Run returned no error
Completed == pc = "done" /\ exit \in {"ok", "count error"}

\* Leaves the run at `return` with the given outcome.
Return(outcome) ==
    /\ pc' = "done"
    /\ exit' = outcome

\* The start of main up to EnsureIndex: mgo.DialWithInfo, then the call of
\* coll.EnsureIndex is next.  fRadio and fCountry are the filter maps the code
\* builds from the flags before it opens the file; building them touches
\* nothing outside the process.
Begin(name, fRadio, fCountry, minsample, file, prev) ==
    /\ filename' = name
    /\ filterRadio' = fRadio
    /\ filterCountry' = fCountry
    /\ minSamples' = minsample
    /\ csv' = file
    /\ fieldsPerRecord' = 0
    /\ lines' = 0
    /\ counter' = 0
    /\ bulk' = <<>>
    /\ pre' = store
    /\ purged' = FALSE
    /\ applied' = {}
    /\ prevRun' = prev
    /\ \/ pc' = "index" /\ exit' = "none"
       \/ Return("dial error")
    /\ UNCHANGED <<store, index, caller>>

\* The tool is started on a file, with flags.
Start(name, flags, file) ==
    /\ pc = "idle"
    /\ Begin(name, MakeFilterRadio(flags.radio), MakeFilterCountry(flags.country),
             flags.minsample, file, NoPrev)

\* The tool is started again with the command line and the file of the run that
\* has just completed.
Repeat ==
    /\ Completed
    /\ Begin(filename, filterRadio, filterCountry, minSamples, csv,
             [same |-> TRUE, docs |-> store])

\* main has returned and the process is gone: nothing of the run is left but
\* the collection.
Exit ==
    /\ pc = "done"
    /\ pc' = "idle"
    /\ filename' = <<>>
    /\ filterRadio' = {}
    /\ filterCountry' = {}
    /\ minSamples' = 0
    /\ csv' = <<>>
    /\ fieldsPerRecord' = 0
    /\ lines' = 0
    /\ counter' = 0
    /\ bulk' = <<>>
    /\ exit' = "none"
    /\ pre' = {}
    /\ purged' = FALSE
    /\ applied' = {}
    /\ prevRun' = NoPrev
    /\ UNCHANGED <<store, index, caller>>

\* coll.EnsureIndex(Unique, DropDups)
EnsureIndex ==
    /\ pc = "index"
    /\ \/ /\ store' = DropDups(store)
          /\ index' = TRUE
          /\ pc' = "open"
          /\ UNCHANGED exit
       \/ /\ Return("index error")
          /\ UNCHANGED <<store, index>>
    /\ UNCHANGED <<filename, filterRadio, filterCountry, minSamples, csv,
                   fieldsPerRecord, lines, counter, bulk, pre, purged, applied, prevRun, caller>>

\* a mutant of Open: the old data is deleted before the file is read
OpenPurgeFirst ==
    /\ pc = "open"
    /\ \/ /\ pc' = "read"
          /\ store' = IF ContainsDiff(filename) THEN store ELSE {}
          /\ UNCHANGED exit
       \/ /\ Return("open error")
          /\ UNCHANGED store
    /\ UNCHANGED <<index, filename, filterRadio, filterCountry, minSamples, csv,
                   fieldsPerRecord, lines, counter, bulk, pre, purged, applied, prevRun, caller>>

\* os.Open(filename)
Open ==
    /\ pc = "open"
    /\ \/ pc' = "read" /\ UNCHANGED exit
       \/ Return("open error")
    /\ UNCHANGED <<store, index, filename, filterRadio, filterCountry, minSamples, csv,
                   fieldsPerRecord, lines, counter, bulk, pre, purged, applied, prevRun, caller>>

\* a mutant of AfterLoop: the check for an empty import is missing
AfterLoopNoGuard ==
    /\ pc' = IF ~ContainsDiff(filename) THEN "purge" ELSE "commit"
    /\ UNCHANGED exit

\* a mutant of AfterLoop: the old data is never deleted
AfterLoopNoPurge ==
    IF counter = 0 THEN Return("no record")
    ELSE /\ pc' = "commit"
         /\ UNCHANGED exit

\* The code after the loop, as far as the next call to the server: the run ends
\* when nothing was staged, and else goes on to RemoveAll or, for a file name
\* with "diff", straight to bulk.Run.
AfterLoop ==
    IF counter = 0 THEN Return("no record")
    ELSE /\ pc' = IF ~ContainsDiff(filename) THEN "purge" ELSE "commit"
         /\ UNCHANGED exit

\* a mutant of ReadRecord: a row that is not staged ends the loop (break for
\* continue)
ReadRecordBreaks ==
    /\ pc = "read"
    /\ IF lines = Len(csv)
       THEN /\ AfterLoop
            /\ UNCHANGED <<fieldsPerRecord, lines, counter, bulk>>
       ELSE LET record == csv[lines + 1] IN
            IF fieldsPerRecord > 0 /\ Len(record) # fieldsPerRecord
            THEN /\ Return("csv error")
                 /\ UNCHANGED <<fieldsPerRecord, lines, counter, bulk>>
            ELSE IF lines = 0
                 THEN /\ lines' = 1
                      /\ fieldsPerRecord' = Len(record)
                      /\ UNCHANGED <<pc, exit, counter, bulk>>
                 ELSE IF Accepted(record, filterRadio, filterCountry, minSamples)
                      THEN /\ lines' = lines + 1
                           /\ bulk' = Append(bulk, [key |-> KeyOf(record),
                                                    data |-> DataOf(record)])
                           /\ counter' = counter + 1
                           /\ UNCHANGED <<pc, exit, fieldsPerRecord>>
                      ELSE /\ lines' = lines + 1
                           /\ AfterLoop
                           /\ UNCHANGED <<fieldsPerRecord, counter, bulk>>
    /\ UNCHANGED <<store, index, filename, filterRadio, filterCountry, minSamples, csv,
                   pre, purged, applied, prevRun, caller>>

\* One r.Read() and the loop body for what it returned.  At io.EOF the loop
\* ends and the code after it runs as far as the next call to the server.
ReadRecord ==
    /\ pc = "read"
    /\ IF lines = Len(csv)
       THEN \* io.EOF
            /\ AfterLoop
            /\ UNCHANGED <<fieldsPerRecord, lines, counter, bulk>>
       ELSE LET record == csv[lines + 1] IN
            IF fieldsPerRecord > 0 /\ Len(record) # fieldsPerRecord
            THEN \* csv.ErrFieldCount
                 /\ Return("csv error")
                 /\ UNCHANGED <<fieldsPerRecord, lines, counter, bulk>>
            ELSE /\ lines' = lines + 1
                 /\ UNCHANGED <<pc, exit>>
                 /\ IF lines' = 1
                    THEN /\ fieldsPerRecord' = Len(record)
                         /\ UNCHANGED <<counter, bulk>>
                    ELSE /\ UNCHANGED fieldsPerRecord
                         /\ IF Accepted(record, filterRadio, filterCountry, minSamples)
                            THEN /\ bulk' = Append(bulk, [key |-> KeyOf(record),
                                                          data |-> DataOf(record)])
                                 /\ counter' = counter + 1
                            ELSE UNCHANGED <<counter, bulk>>
    /\ UNCHANGED <<store, index, filename, filterRadio, filterCountry, minSamples, csv,
                   pre, purged, applied, prevRun, caller>>

\* r.Read() fails on the file itself
ReadFail ==
    /\ pc = "read"
    /\ lines < Len(csv)
    /\ Return("csv error")
    /\ UNCHANGED <<store, index, filename, filterRadio, filterCountry, minSamples, csv,
                   fieldsPerRecord, lines, counter, bulk, pre, purged, applied, prevRun, caller>>

\* a mutant of RemoveAll: coll.Remove(nil), which deletes one document
RemoveOne ==
    /\ pc = "purge"
    /\ \/ /\ \E d \in store : store' = store \ {d}
          /\ purged' = TRUE
          /\ pc' = "commit"
          /\ UNCHANGED exit
       \/ /\ store' = {}
          /\ purged' = TRUE
          /\ pc' = "commit"
          /\ UNCHANGED exit
    /\ UNCHANGED <<index, filename, filterRadio, filterCountry, minSamples, csv,
                   fieldsPerRecord, lines, counter, bulk, pre, applied, prevRun, caller>>

\* coll.RemoveAll(nil); when it fails, any part of the collection may be gone
RemoveAll ==
    /\ pc = "purge"
    /\ \/ /\ store' = {}
          /\ purged' = TRUE
          /\ pc' = "commit"
          /\ UNCHANGED exit
       \/ /\ store' \in SUBSET store
          /\ Return("delete error")
          /\ UNCHANGED purged
    /\ UNCHANGED <<index, filename, filterRadio, filterCountry, minSamples, csv,
                   fieldsPerRecord, lines, counter, bulk, pre, applied, prevRun, caller>>

\* bulk.Run() of an unordered bulk: the server applies the staged operations in
\* an order of its choosing; when it fails, any part of them may have been applied
BulkRun ==
    /\ pc = "commit"
    /\ \E order \in Orders(Len(bulk)) :
         LET ops == [i \in 1..Len(bulk) |-> bulk[order[i]]] IN
         \/ /\ store' = ApplyAll(store, ops)
            /\ applied' = Range(ops)
            /\ pc' = "count"
            /\ UNCHANGED exit
         \/ \E n \in 0..(Len(bulk) - 1) :
              /\ store' = ApplyAll(store, SubSeq(ops, 1, n))
              /\ applied' = Range(SubSeq(ops, 1, n))
              /\ Return("bulk error")
    /\ UNCHANGED <<index, filename, filterRadio, filterCountry, minSamples, csv,
                   fieldsPerRecord, lines, counter, bulk, pre, purged, prevRun, caller>>

\* coll.Count()
Count ==
    /\ pc = "count"
    /\ \/ Return("ok")
       \/ Return("count error")
    /\ UNCHANGED <<store, index, filename, filterRadio, filterCountry, minSamples, csv,
                   fieldsPerRecord, lines, counter, bulk, pre, purged, applied, prevRun, caller>>

NextImport ==
    \/ \E name \in FileNames, flags \in CommandLines, file \in Files :
         Start(name, flags, file)
    \/ Repeat
    \/ Exit
    \/ EnsureIndex
    \/ Open
    \/ ReadRecord
    \/ ReadFail
    \/ RemoveAll
    \/ BulkRun
    \/ Count

----------------------------------------------------------------------------
(* package lbs: GetCells, Get and Records, one action per step that reaches *)
(* the session or the server, with the local code around it                *)

Callers == {"p", "q"}

T1 == Tower(250, 2, 7743, 22517)
T2 == Tower(250, 2, 7743, 22518)
\* the area and cell of T1 in another country and network
T3 == Tower(255, 1, 7743, 22517)
Towers == {T1, T2, T3}

WifiLists == {<<>>, <<"ap">>}

\* the requests of the model: every list of up to MaxTowers towers, with and
\* without a Wi-Fi access point, a radio type and request-level codes
Requests ==
    {Request(radio, home[1], home[2], towers, wifi) :
        radio \in {"", "lte"}, home \in {<<0, 0>>, <<250, 2>>},
        towers \in SeqsUpTo(Towers, MaxTowers), wifi \in WifiLists}

NilResponse == [nil |-> TRUE, Lat |-> Float(0), Lng |-> Float(0), Accuracy |-> 0]
Response(r) == [nil |-> FALSE, Lat |-> r.Lat, Lng |-> r.Lng, Accuracy |-> r.Accuracy]

NoRequest == Request("", 0, 0, <<>>, <<>>)

NoCall ==
    [pc |-> "idle", op |-> "none", req |-> NoRequest, cells |-> <<>>, err |-> "nil",
     resp |-> NilResponse, total |-> 0, copies |-> 0, queries |-> 0, closes |-> 0]

InitCallers == caller = [c \in Callers |-> NoCall]

\* a mutant of EmptyRequest: nothing is checked
EmptyRequestNever(req) == FALSE

\* the first check of GetCells
EmptyRequest(req) == Len(req.CellTowers) = 0 /\ Len(req.WifiAccessPoints) = 0

\* GetCells(req) or Get(req) is called, and runs as far as the server: it
\* returns ErrEmptyRequest, or panics on req.CellTowers[0], or has its copy of
\* the session.
Call(c, op, req) ==
    /\ caller[c].pc = "idle"
    /\ caller' = [caller EXCEPT ![c] =
         IF EmptyRequest(req)
         THEN [NoCall EXCEPT !.pc = "returned", !.op = op, !.req = req,
                             !.err = "ErrEmptyRequest"]
         ELSE IF Panics(req)
         THEN [NoCall EXCEPT !.pc = "panicked", !.op = op, !.req = req]
         ELSE [NoCall EXCEPT !.pc = "find", !.op = op, !.req = req, !.copies = 1]]
    /\ UNCHANGED <<store, index, importVars>>

\* a mutant of Find: the collection is counted before it is searched
FindAfterCount(c) ==
    /\ caller[c].pc = "find"
    /\ \/ /\ Len(caller[c].req.CellTowers) > 0
          /\ \E cells \in FindResults(store, Search(caller[c].req)) :
               caller' = [caller EXCEPT ![c].pc = "close", ![c].cells = cells,
                                        ![c].queries = @ + 2]
       \/ /\ Len(caller[c].req.CellTowers) = 0
          /\ caller' = [caller EXCEPT ![c].pc = "close", ![c].err = "bad query",
                                      ![c].queries = @ + 2]
       \/ caller' = [caller EXCEPT ![c].pc = "close", ![c].err = "store error",
                                   ![c].queries = @ + 2]
    /\ UNCHANGED <<store, index, importVars>>

\* coll.Find(search).Select(selector).All(&cells): the server answers with the
\* selected data, or refuses a search whose $or is empty, or cannot be reached
Find(c) ==
    /\ caller[c].pc = "find"
    /\ \/ /\ Len(caller[c].req.CellTowers) > 0
          /\ \E cells \in FindResults(store, Search(caller[c].req)) :
               caller' = [caller EXCEPT ![c].pc = "close", ![c].cells = cells,
                                        ![c].queries = @ + 1]
       \/ /\ Len(caller[c].req.CellTowers) = 0
          /\ caller' = [caller EXCEPT ![c].pc = "close", ![c].err = "bad query",
                                      ![c].queries = @ + 1]
       \/ caller' = [caller EXCEPT ![c].pc = "close", ![c].err = "store error",
                                   ![c].queries = @ + 1]
    /\ UNCHANGED <<store, index, importVars>>

\* Records() is called: it has its copy of the session.
CallRecords(c) ==
    /\ caller[c].pc = "idle"
    /\ caller' = [caller EXCEPT ![c] =
                    [NoCall EXCEPT !.pc = "count", !.op = "Records", !.copies = 1]]
    /\ UNCHANGED <<store, index, importVars>>

\* coll.Count(), whose error Records drops
CountRecords(c) ==
    /\ caller[c].pc = "count"
    /\ \/ caller' = [caller EXCEPT ![c].pc = "close", ![c].total = Cardinality(store),
                                   ![c].queries = @ + 1]
       \/ caller' = [caller EXCEPT ![c].pc = "close", ![c].queries = @ + 1]
    /\ UNCHANGED <<store, index, importVars>>

\* a mutant of Close: after an error the call returns at once, its session open
CloseUnlessError(c) ==
    /\ caller[c].pc = "close"
    /\ caller' = [caller EXCEPT
         ![c].pc = "returned",
         ![c].closes = IF caller[c].err = "nil" THEN @ + 1 ELSE @,
         ![c].resp = IF caller[c].op = "Get" /\ caller[c].err = "nil"
                     THEN Response(Respond(caller[c].cells))
                     ELSE NilResponse]
    /\ UNCHANGED <<store, index, importVars>>

\* session.Close() and the rest of the call: GetCells and Records return what
\* they have, Get returns the error of GetCells or the response it computes
Close(c) ==
    /\ caller[c].pc = "close"
    /\ caller' = [caller EXCEPT
         ![c].pc = "returned",
         ![c].closes = @ + 1,
         ![c].resp = IF caller[c].op = "Get" /\ caller[c].err = "nil"
                     THEN Response(Respond(caller[c].cells))
                     ELSE NilResponse]
    /\ UNCHANGED <<store, index, importVars>>

\* the caller has taken what the call returned and can call again
TakeResult(c) ==
    /\ caller[c].pc = "returned"
    /\ caller' = [caller EXCEPT ![c] = NoCall]
    /\ UNCHANGED <<store, index, importVars>>

NextLookup(c) ==
    \/ \E op \in {"GetCells", "Get"}, req \in Requests : Call(c, op, req)
    \/ Find(c)
    \/ CallRecords(c)
    \/ CountRecords(c)
    \/ Close(c)
    \/ TakeResult(c)

----------------------------------------------------------------------------
(* Specifications *)

vars == <<store, index, importVars, caller>>

\* a new database: no collection, no index, the tool not running, nobody calling
Init ==
    /\ store = {}
    /\ index = FALSE
    /\ InitImport
    /\ InitCallers

\* the runs of the import tool alone
SpecImport == Init /\ [][NextImport]_vars

\* the documents the rows of the model can leave in the collection
Docs ==
    {MkDoc(KeyOf(r), DataOf(r)) :
        r \in {x \in Rows : Len(x) = Len(Header) /\ Accepted(x, {}, {}, 0)}}

\* the collections the import tool can leave: no two documents with one key
Stores == {s \in SUBSET Docs : \A d, e \in s : DocKey(d) = DocKey(e) => d = e}

\* a collection the tool has left, and nobody calling yet
InitLookup ==
    /\ store \in Stores
    /\ index = TRUE
    /\ InitImport
    /\ InitCallers

\* one caller's lookups, one after the other, while the tool does not run
SpecLookup == InitLookup /\ [][NextLookup("p")]_vars

\* the requests of concurrent callers: one tower, two towers, an access point
\* with and without request-level codes, and nothing
FewRequests ==
    {Request("", 0, 0, <<T1>>, <<>>), Request("", 0, 0, <<T1, T2>>, <<>>),
     Request("", 250, 2, <<>>, <<"ap">>), Request("", 0, 0, <<>>, <<"ap">>), NoRequest}

NextFew(c) ==
    \/ \E op \in {"GetCells", "Get"}, req \in FewRequests : Call(c, op, req)
    \/ Find(c)
    \/ CallRecords(c)
    \/ CountRecords(c)
    \/ Close(c)
    \/ TakeResult(c)

NextConcurrent == \E c \in Callers : NextFew(c)

\* the callers' lookups on one DB, their steps in any order, while the tool
\* does not run
SpecConcurrent == InitLookup /\ [][NextConcurrent]_vars

Next == NextImport \/ \E c \in Callers : NextLookup(c)

\* the tool and the callers of the package together
Spec == Init /\ [][Next]_vars

----------------------------------------------------------------------------
(* Claims about an import run *)

\* the data rows of the file that the run's filters and parsers accept
AcceptedRows ==
    {csv[i] : i \in {j \in 2..Len(csv) :
                       /\ Len(csv[j]) = Len(csv[1])
                       /\ Accepted(csv[j], filterRadio, filterCountry, minSamples)}}

AcceptedKeys == {KeyOf(r) : r \in AcceptedRows}

\* the file name of the run has no part "diff": the run is a full import
FullMode == \A i \in 1..Len(filename) : filename[i] # "diff"

\* C1: after a completed run in full mode (which has accepted a row), the keys
\* in the collection are exactly the keys of the rows the run accepted.
C1_FullImportReplaces ==
    (Completed /\ FullMode) => Keys(store) = AcceptedKeys

\* C1 witness: a completed full run over a collection that held a tower the file
\* does not name.
C1_Witness ==
    /\ Completed /\ FullMode
    /\ \E d \in pre : DocKey(d) \notin AcceptedKeys
    /\ AcceptedKeys # {}

\* C2: a run that has accepted no row, at its end as before it, has changed
\* nothing in the collection, in full as in incremental mode: no delete and no
\* upsert was applied, and the records are those the run found.
C2_EmptyImportKeeps ==
    (pc # "idle" /\ counter = 0) =>
        (store = pre /\ ~purged /\ applied = {})

\* C2 witness: a full run whose rows were all rejected, over a collection that
\* holds records.
C2_Witness ==
    /\ pc = "done" /\ exit = "no record"
    /\ FullMode
    /\ Len(csv) > 1
    /\ pre # {}

\* C3: at every point of a run in incremental mode, every key the collection
\* held at the start is still there, and a record whose key is not the key of
\* an accepted row is there unchanged.
C3_IncrementalNeverDeletes ==
    (pc # "idle" /\ ~FullMode) =>
        /\ Keys(pre) \subseteq Keys(store)
        /\ \A d \in pre : DocKey(d) \notin AcceptedKeys => d \in store

\* C3 witness: a completed incremental run that has rewritten one record of the
\* collection and left another, which the file does not name, alone.
C3_Witness ==
    /\ Completed /\ ~FullMode
    /\ \E d \in pre : DocKey(d) \notin AcceptedKeys /\ d \in store
    /\ \E d \in pre : DocKey(d) \in AcceptedKeys /\ d \notin store

\* no two staged operations give one key different data
NoConflict ==
    \A i, j \in 1..Len(bulk) : bulk[i].key = bulk[j].key => bulk[i].data = bulk[j].data

\* C10 as claimed: a full run repeated on the same file with the same filters
\* leaves the records the first run left, for every file.
C10_RepeatSameRecords ==
    (Completed /\ FullMode /\ prevRun.same) => store = prevRun.docs

\* C10 amended: ... for every file in which the accepted rows of one tower key
\* carry the same point and range.
C10_RepeatSameRecordsNoConflict ==
    (Completed /\ FullMode /\ prevRun.same /\ NoConflict) => store = prevRun.docs

\* C10 witness: the second of two completed full runs on a file with two towers,
\* the first of which had replaced other records.
C10_Witness ==
    /\ Completed /\ FullMode /\ prevRun.same /\ NoConflict
    /\ Cardinality(AcceptedKeys) = 2
    /\ store = prevRun.docs
    /\ pre = prevRun.docs

----------------------------------------------------------------------------
(* Claims about the rows of an import run *)

\* the data rows the loop has read so far, by their place in the file
RowsRead == 2..lines

\* the operation that a row is staged as
OpOf(record) == [key |-> KeyOf(record), data |-> DataOf(record)]

\* the three filters, as the flags of the run configure them
InRadioSet(record) == ToLower(Col(record, 0).s) \in filterRadio
SamplesEnough(record) == Col(record, 9).kind = "int" /\ Col(record, 9).v >= minSamples
InCountrySet(record) ==
    filterCountry = {} \/ (Col(record, 1).kind = "int" /\ Col(record, 1).v \in filterCountry)
PassesFilters(record) == InRadioSet(record) /\ SamplesEnough(record) /\ InCountrySet(record)

\* C11: every staged operation is the operation of a row read that passes the
\* radio, sample and country filters; every operation the server applied was
\* staged; and a record in the collection that the run did not find there is
\* the record of such a row.
C11_OnlyFilteredRowsStaged ==
    /\ \A k \in 1..Len(bulk) :
         \E i \in RowsRead : PassesFilters(csv[i]) /\ bulk[k] = OpOf(csv[i])
    /\ \A op \in applied : \E k \in 1..Len(bulk) : bulk[k] = op
    /\ pc # "idle" =>
         \A d \in store \ pre :
            \E i \in RowsRead : PassesFilters(csv[i]) /\ d = MkDoc(KeyOf(csv[i]), DataOf(csv[i]))

\* C11 witness: a completed run with a minimum of five samples over a file with
\* a row of three samples and a row of a radio type outside the filter; the
\* collection holds neither.
C11_Witness ==
    /\ Completed /\ minSamples = 5
    /\ \E i, j \in RowsRead :
         /\ Col(csv[i], 9).v = 3
         /\ Col(csv[j], 9).v >= 5
         /\ MkDoc(KeyOf(csv[i]), DataOf(csv[i])) \notin store
         /\ MkDoc(KeyOf(csv[j]), DataOf(csv[j])) \in store

\* every field the loop parses is a number of its kind
ParsesAll(record) ==
    /\ Col(record, 9).kind = "int"
    /\ \A k \in 1..4 : Col(record, k).kind = "int" /\ Col(record, k).v >= 0
    /\ \A k \in 6..8 : Col(record, k).kind \in {"int", "float"}

\* the run was given -radio "", -country "" and no -minsample
NoFilterGiven == filterRadio \subseteq {""} /\ filterCountry = {} /\ minSamples = 0

\* C12: in a run with an empty radio filter, an empty country filter and no
\* minimum sample count, every row read whose fields parse is staged.
C12_AbsentFilterAdmitsAll ==
    (pc # "idle" /\ NoFilterGiven) =>
        \A i \in RowsRead :
            (Len(csv[i]) = Len(csv[1]) /\ ParsesAll(csv[i])) =>
                \E k \in 1..Len(bulk) : bulk[k] = OpOf(csv[i])

\* C13: a run that ended because the file could not be opened or a read of it
\* failed has applied no delete and no upsert, and the collection holds the
\* records it held before the run.
C13_DatasetErrorKeeps ==
    (pc = "done" /\ exit \in {"open error", "csv error"}) =>
        (store = pre /\ ~purged /\ applied = {})

\* C13 witness: a full run over a collection that holds records, whose read
\* failed after a row was staged.
C13_Witness ==
    /\ pc = "done" /\ exit = "csv error"
    /\ FullMode
    /\ counter > 0
    /\ pre # {}

\* the steps of a run, by the position before and after
RunOrder ==
    {<<"idle", "index">>, <<"idle", "done">>, <<"index", "open">>, <<"index", "done">>,
     <<"open", "read">>, <<"open", "done">>, <<"read", "purge">>, <<"read", "commit">>,
     <<"read", "done">>, <<"purge", "commit">>, <<"purge", "done">>,
     <<"commit", "count">>, <<"commit", "done">>, <<"count", "done">>,
     <<"done", "idle">>, <<"done", "index">>}

\* the positions of a run in which the file has been read to its end
AfterReading ==
    \/ pc \in {"purge", "commit", "count"}
    \/ pc = "done" /\ exit \in {"no record", "delete error", "bulk error", "ok", "count error"}

\* C17, in every state: up to the end of reading nothing of the collection has
\* changed; the purge comes only in full mode, after the last record was read
\* and before any upsert is applied; in full mode the upserts come only after
\* the purge; in incremental mode there is no purge.
C17_OrderInState ==
    /\ pc \in {"index", "open", "read"} => (store = pre /\ ~purged /\ applied = {})
    /\ pc = "purge" => (FullMode /\ lines = Len(csv) /\ counter > 0 /\ applied = {})
    /\ AfterReading => lines = Len(csv)
    /\ purged => FullMode
    /\ (FullMode /\ (pc \in {"commit", "count"} \/ applied # {})) => purged
    /\ ~FullMode => (pc # "purge" /\ ~purged)

\* C17, in every step: the position moves along the order of a run; the
\* collection changes only in the purge and in the commit; nothing changes it
\* after the commit.
C17_OrderInStep ==
    /\ pc' # pc => <<pc, pc'>> \in RunOrder
    /\ store' # store => pc \in {"purge", "commit"}
    /\ purged' # purged => (pc = "purge" \/ pc' \in {"idle", "index", "done"})
    /\ pc \in {"count", "done"} => store' = store

\* C17: a run goes idle, reading, purge in full mode only, commit, done, as the
\* two definitions above say.
C17_RunOrder == [](C17_OrderInState) /\ [][C17_OrderInStep]_vars

\* C17 witness: a full run that has read its file to the end, purged a
\* collection that held records, applied its upserts and is at the count.
C17_Witness ==
    /\ pc = "count" /\ FullMode
    /\ purged /\ applied # {}
    /\ pre # {}
    /\ lines = Len(csv) /\ lines > 2

\* a field that strconv cannot parse in one of the columns the loop parses
BadField(record) == \E k \in {1, 2, 3, 4, 6, 7, 8, 9} : Col(record, k).kind = "text"

\* the places in the file of the data rows that are staged
StagedPlaces ==
    {i \in 2..Len(csv) : Accepted(csv[i], filterRadio, filterCountry, minSamples)}

\* the staged operations of the rows before place i
RECURSIVE StagedBefore(_)
StagedBefore(i) ==
    IF i <= 2 THEN <<>>
    ELSE IF i - 1 \in StagedPlaces
         THEN Append(StagedBefore(i - 1), OpOf(csv[i - 1]))
         ELSE StagedBefore(i - 1)

\* C18: when the loop has ended at the end of the file, every data row was read
\* and judged by itself: the staged operations are those of the rows that pass,
\* in the order of the file, no row with an unparsable field among them, and
\* the rows staged and the rows skipped are all the data rows.
C18_BadRowSkipped ==
    AfterReading =>
        /\ lines = Len(csv)
        /\ \A i \in 2..Len(csv) : Len(csv[i]) = Len(csv[1])
        /\ bulk = StagedBefore(Len(csv) + 1)
        /\ counter = Cardinality(StagedPlaces)
        /\ \A i \in 2..Len(csv) : BadField(csv[i]) => i \notin StagedPlaces
        /\ Len(csv) > 0 =>
             counter + Cardinality((2..Len(csv)) \ StagedPlaces) = Len(csv) - 1

\* C18 witness: a run has read to the end a file whose first data row has a
\* cell id that is no number and whose second row is staged.
C18_Witness ==
    /\ AfterReading
    /\ Len(csv) = 3
    /\ BadField(csv[2])
    /\ bulk = <<OpOf(csv[3])>>

----------------------------------------------------------------------------
(* Claims about the lookups *)

Returned(c, op) == caller[c].pc = "returned" /\ caller[c].op = op

\* a call that has returned what the server selected
Answered(c, op) == Returned(c, op) /\ caller[c].queries = 1 /\ caller[c].err = "nil"

NoTowers(req) == Len(req.CellTowers) = 0 /\ Len(req.WifiAccessPoints) = 0

\* C4: a call of GetCells or Get with a request that names no tower and no
\* access point has returned ErrEmptyRequest, and has made no copy of the
\* session and no query.
C4_EmptyRequestFails ==
    \A c \in Callers :
        (caller[c].op \in {"GetCells", "Get"} /\ NoTowers(caller[c].req)) =>
            /\ caller[c].pc = "returned"
            /\ caller[c].err = "ErrEmptyRequest"
            /\ caller[c].resp.nil
            /\ caller[c].copies = 0 /\ caller[c].queries = 0

\* C4 witness: Get has returned from a request that names nothing.
C4_Witness ==
    \E c \in Callers :
        Returned(c, "Get") /\ NoTowers(caller[c].req) /\ caller[c].err = "ErrEmptyRequest"

\* C5: when the server has selected no document for a request that names
\* towers, Get returns ErrNotFound and no response.
C5_NoMatchIsNotFound ==
    \A c \in Callers :
        (/\ Returned(c, "Get")
         /\ caller[c].queries = 1
         /\ caller[c].err \notin {"store error", "bad query"}
         /\ Matches(store, Search(caller[c].req)) = {}) =>
            caller[c].err = "ErrNotFound" /\ caller[c].resp.nil

\* what Get returns for a request when the server answers: an error, a panic,
\* or a response for each order in which the server can list the cells
Outcomes(s, req) ==
    IF EmptyRequest(req) THEN {[kind |-> "ErrEmptyRequest", resp |-> NilResponse]}
    ELSE IF Panics(req) THEN {[kind |-> "panic", resp |-> NilResponse]}
    ELSE IF Len(req.CellTowers) = 0 THEN {[kind |-> "bad query", resp |-> NilResponse]}
    ELSE {[kind |-> "nil", resp |-> Response(Respond(cells))] :
            cells \in FindResults(s, Search(req))}

\* the request with its towers in another order
Permuted(req, order) ==
    [req EXCEPT !.CellTowers = [i \in 1..Len(req.CellTowers) |-> req.CellTowers[order[i]]]]

\* the towers of both orders give the search the same country and network code
SameCodes(req, other) ==
    /\ req.HomeMobileCountryCode = 0 =>
         req.CellTowers[1].MobileCountryCode = other.CellTowers[1].MobileCountryCode
    /\ req.HomeMobileNetworkCode = 0 =>
         req.CellTowers[1].MobileNetworkCode = other.CellTowers[1].MobileNetworkCode

\* C6 as claimed: what Get has returned for a request it returns for the same
\* towers in every other order: the same documents selected, the same response.
C6_OrderOfTowers ==
    \A c \in Callers :
        Answered(c, "Get") =>
            \A order \in Orders(Len(caller[c].req.CellTowers)) :
                LET other == Permuted(caller[c].req, order) IN
                /\ Matches(store, Search(other)) = Matches(store, Search(caller[c].req))
                /\ Outcomes(store, other) = {[kind |-> "nil", resp |-> caller[c].resp]}

\* C6 amended: ... in every other order that gives the search the same country
\* and network code: the request carries the codes, or the first tower of both
\* orders has the same codes.
C6_OrderOfTowersSameCodes ==
    \A c \in Callers :
        Answered(c, "Get") =>
            \A order \in Orders(Len(caller[c].req.CellTowers)) :
                LET other == Permuted(caller[c].req, order) IN
                SameCodes(caller[c].req, other) =>
                    /\ Matches(store, Search(other)) = Matches(store, Search(caller[c].req))
                    /\ Outcomes(store, other) = {[kind |-> "nil", resp |-> caller[c].resp]}

\* C6 witness: Get has answered a request of two different towers of one
\* network, both in the collection.
C6_Witness ==
    \E c \in Callers :
        /\ Answered(c, "Get")
        /\ Len(caller[c].req.CellTowers) = 2
        /\ caller[c].req.CellTowers[1] # caller[c].req.CellTowers[2]
        /\ Len(caller[c].cells) = 2
        /\ Outcomes(store, Permuted(caller[c].req, <<2, 1>>))
             = {[kind |-> "nil", resp |-> caller[c].resp]}

DistOf(resp, cell) == Haversine(resp.Lng.v, resp.Lat.v, cell.lon, cell.lat) + cell.range

----------------------------------------------------------------------------
(* Claims about the sessions, the queries and the search of the lookups *)

\* the documents of the collection that a request with cell towers names: the
\* request's radio type or "gsm", the request's codes or those of its first
\* tower, and the area and cell of one of its towers
ExpectedDocs(req) ==
    LET radio == IF req.RadioType # "" THEN req.RadioType ELSE "gsm"
        mcc == IF req.HomeMobileCountryCode # 0 THEN req.HomeMobileCountryCode
               ELSE req.CellTowers[1].MobileCountryCode
        mnc == IF req.HomeMobileNetworkCode # 0 THEN req.HomeMobileNetworkCode
               ELSE req.CellTowers[1].MobileNetworkCode
    IN  {d \in store :
           /\ d.radio = radio /\ d.mcc = mcc /\ d.mnc = mnc
           /\ \E i \in 1..Len(req.CellTowers) :
                /\ d.lac = req.CellTowers[i].LocationAreaCode
                /\ d.cell = req.CellTowers[i].CellId}

\* the cells a call has got are the data of those documents, each once
GotExpected(c) ==
    /\ Len(caller[c].cells) = Cardinality(ExpectedDocs(caller[c].req))
    /\ Range(caller[c].cells) = {[lon |-> d.lon, lat |-> d.lat, range |-> d.range] :
                                   d \in ExpectedDocs(caller[c].req)}

\* C14: with the callers' steps in any order, a call holds one copy of the
\* session from its start to its close and none after it has returned, with or
\* without an error of the query; when all calls have returned, as many copies
\* were closed as were made; and what a call has got is what its own request
\* selects.
C14_OwnSessionClosed ==
    /\ \A c \in Callers :
         /\ caller[c].pc \in {"find", "count", "close"} =>
              (caller[c].copies = 1 /\ caller[c].closes = 0)
         /\ (caller[c].pc = "returned" /\ caller[c].err # "ErrEmptyRequest") =>
              (caller[c].copies = 1 /\ caller[c].closes = 1)
         /\ (caller[c].pc = "returned" /\ caller[c].err = "ErrEmptyRequest") =>
              (caller[c].copies = 0 /\ caller[c].closes = 0)
         /\ caller[c].pc \in {"idle", "panicked"} =>
              (caller[c].copies = 0 /\ caller[c].closes = 0)
         /\ (caller[c].pc = "returned" /\ caller[c].op \in {"GetCells", "Get"}
                /\ caller[c].err = "nil") => GotExpected(c)
    /\ (\A c \in Callers : caller[c].pc \in {"idle", "returned"}) =>
         caller["p"].copies + caller["q"].copies = caller["p"].closes + caller["q"].closes

\* C14 witness: two calls have returned, one with the error of its query and
\* one with the cells of two towers, and each has closed its copy.
C14_Witness ==
    /\ caller["p"].pc = "returned" /\ caller["p"].err = "store error"
    /\ caller["p"].copies = 1 /\ caller["p"].closes = 1
    /\ caller["q"].pc = "returned" /\ caller["q"].err = "nil"
    /\ Len(caller["q"].cells) = 2
    /\ caller["q"].closes = 1

\* C15, in every state: a call of GetCells or Get has made no query when it
\* returns ErrEmptyRequest, and one query when it returns anything else.
C15_OneQuery ==
    \A c \in Callers :
        caller[c].op \in {"GetCells", "Get"} =>
            /\ caller[c].queries <= 1
            /\ caller[c].pc = "returned" =>
                 caller[c].queries = IF caller[c].err = "ErrEmptyRequest" THEN 0 ELSE 1

\* C15: no step of a lookup changes the collection, and a call makes one query.
C15_LookupsOnlyRead == [][store' = store /\ index' = index]_vars /\ [](C15_OneQuery)

\* C15 witness: Get has returned the error of the server over a collection that
\* holds records, after one query.
C15_Witness ==
    \E c \in Callers :
        /\ Returned(c, "Get")
        /\ caller[c].err = "store error"
        /\ caller[c].queries = 1
        /\ store # {}

C19_NeverAborts ==
    \A c \in Callers : caller[c].pc # "panicked"

----------------------------------------------------------------------------
(* Claims about an import run and the lookups that follow it *)

\* the request that names the tower of a row and nothing else, with a radio type
RowRequest(row, radio) ==
    Request(radio, 0, 0,
            <<Tower(Col(row, 1).v, Col(row, 2).v, Col(row, 3).v, Col(row, 4).v)>>, <<>>)

\* the response that is the point and the range of a row
RowResponse(row) ==
    [nil |-> FALSE, Lat |-> Float(DataOf(row).lat), Lng |-> Float(DataOf(row).lon),
     Accuracy |-> DataOf(row).range]

\* GetCells returns the row's record for the request, and Get the row's point
\* and range
RoundTrip(row, req) ==
    /\ FindResults(store, Search(req)) = {<<DataOf(row)>>}
    /\ Outcomes(store, req) = {[kind |-> "nil", resp |-> RowResponse(row)]}

OnlyData(row) ==
    \A other \in AcceptedRows : KeyOf(other) = KeyOf(row) => DataOf(other) = DataOf(row)

====
